---- MODULE Spec2Model ----
(***************************************************************************)
(* A model of refractive_index/sellmeier.py: the class BK7 with its four   *)
(* operations __call__ (index), ng (groupIndex), GVD                       *)
(* (groupVelocityDispersion) and D (dispersionParameter).                  *)
(*                                                                         *)
(* Numbers.  A Python float / numpy.float64 is modelled as a decimal       *)
(* floating-point number  s * m * 10^e  with a mantissa of Digits          *)
(* significant decimal digits, every operation rounded to nearest, ties to *)
(* even, as IEEE-754 arithmetic is.  The mantissa is a natural number kept *)
(* as a little-endian sequence of limbs in base Base, because the          *)
(* intermediate products exceed the integers TLC computes with.  The       *)
(* exponent range is not bounded (no wavelength of the model comes near    *)
(* overflow or underflow) and zero carries no sign (every zero divisor of  *)
(* the code is a square or comes with a zero or NaN numerator).            *)
(***************************************************************************)
EXTENDS Integers, Sequences, FiniteSets, TLC

(***************************************************************************)
(* Natural numbers of any size: <<>> is 0, no leading (last) zero limb.    *)
(* A carry enters limb i when some lower limb overflows and every limb     *)
(* between is full.                                                        *)
(***************************************************************************)
Base == 10000
LimbDigits == 4
Digits == 16

Limb(a, i) == IF i >= 1 /\ i <= Len(a) THEN a[i] ELSE 0

Max(x, y) == IF x >= y THEN x ELSE y
Min(x, y) == IF x <= y THEN x ELSE y

BStrip(a) ==
    IF \A i \in 1..Len(a) : a[i] = 0 THEN <<>>
    ELSE SubSeq(a, 1, CHOOSE i \in 1..Len(a) :
                          a[i] # 0 /\ \A j \in (i + 1)..Len(a) : a[j] = 0)

BNat(n) ==
    BStrip(<<n % Base, (n \div Base) % Base, n \div (Base * Base)>>)

\* the number whose limbs are the sums s, each below 2 * Base
Carry(s) ==
    BStrip([i \in 1..Len(s) |->
               (s[i] + (IF \E j \in 1..(i - 1) :
                              s[j] >= Base /\ \A l \in (j + 1)..(i - 1) : s[l] = Base - 1
                        THEN 1 ELSE 0)) % Base])

BAdd(a, b) ==
    Carry([i \in 1..(Max(Len(a), Len(b)) + 1) |-> Limb(a, i) + Limb(b, i)])

\* the number whose limbs are the differences d, each above -Base
Borrow(d) ==
    BStrip([i \in 1..Len(d) |->
               (d[i] - (IF \E j \in 1..(i - 1) :
                              d[j] < 0 /\ \A l \in (j + 1)..(i - 1) : d[l] = 0
                        THEN 1 ELSE 0)) % Base])

\* a - b for a >= b
BSub(a, b) == Borrow([i \in 1..Len(a) |-> a[i] - Limb(b, i)])

\* -1, 0, 1 as a < b, a = b, a > b
BCmp(a, b) ==
    IF Len(a) < Len(b) THEN -1
    ELSE IF Len(a) > Len(b) THEN 1
    ELSE IF \A i \in 1..Len(a) : a[i] = b[i] THEN 0
    ELSE IF \E i \in 1..Len(a) :
                a[i] < b[i] /\ \A j \in (i + 1)..Len(a) : a[j] = b[j]
    THEN -1 ELSE 1

\* a * k for 0 <= k < Base
BMulSmall(a, k) ==
    Carry([i \in 1..(Len(a) + 1) |->
              ((Limb(a, i) * k) % Base) + ((Limb(a, i - 1) * k) \div Base)])

\* the sum of a[i] * b[k + 1 - i] over i in 1..n: column k of the product
RECURSIVE Column(_, _, _, _)
Column(a, b, k, n) ==
    IF n = 0 THEN 0 ELSE a[n] * Limb(b, k + 1 - n) + Column(a, b, k, n - 1)

\* the number whose columns are c, each below Base^3
Columns(c) ==
    BAdd(BAdd([k \in 1..Len(c) |-> c[k] % Base],
              <<0>> \o [k \in 1..Len(c) |-> (c[k] \div Base) % Base]),
         <<0, 0>> \o [k \in 1..Len(c) |-> c[k] \div (Base * Base)])

\* a * b
BMul(a, b) ==
    IF a = <<>> \/ b = <<>> THEN <<>>
    ELSE Columns([k \in 1..(Len(a) + Len(b)) |-> Column(a, b, k, Len(a))])

SmallPow10(k) == <<1, 10, 100, 1000, 10000>>[k + 1]

SmallDigits(n) == IF n < 10 THEN 1 ELSE IF n < 100 THEN 2 ELSE IF n < 1000 THEN 3 ELSE 4

\* the number of decimal digits of a (0 for zero)
BDigits(a) ==
    IF a = <<>> THEN 0
    ELSE LimbDigits * (Len(a) - 1) + SmallDigits(a[Len(a)])

\* a * 10^k
BShl(a, k) ==
    IF a = <<>> THEN a
    ELSE [i \in 1..(k \div LimbDigits) |-> 0]
           \o BStrip([i \in 1..(Len(a) + 1) |->
                         (Limb(a, i) % SmallPow10(LimbDigits - (k % LimbDigits)))
                                 * SmallPow10(k % LimbDigits)
                             + Limb(a, i - 1) \div SmallPow10(LimbDigits - (k % LimbDigits))])

\* a \div 10^k
BShr(a, k) ==
    BStrip([i \in 1..(Len(a) - (k \div LimbDigits)) |->
               (Limb(a, i + (k \div LimbDigits) + 1) % SmallPow10(k % LimbDigits))
                       * SmallPow10(LimbDigits - (k % LimbDigits))
                   + a[i + (k \div LimbDigits)] \div SmallPow10(k % LimbDigits)])

\* a % 10^k
BLow(a, k) ==
    BStrip([i \in 1..Min((k \div LimbDigits) + 1, Len(a)) |->
               IF i <= k \div LimbDigits THEN a[i]
               ELSE a[i] % SmallPow10(k % LimbDigits)])

BPow10(k) == BShl(<<1>>, k)

BIsEven(a) == a = <<>> \/ a[1] % 2 = 0

\* a \div 2
BHalf(a) ==
    BStrip([i \in 1..Len(a) |-> (Limb(a, i + 1) % 2) * (Base \div 2) + (a[i] \div 2)])

\* est or est - 1 or est - 2: the largest d with d * b <= cur, t being est * b
QFix(cur, b, est, t) ==
    IF BCmp(t, cur) <= 0 THEN est
    ELSE IF BCmp(BSub(t, b), cur) <= 0 THEN est - 1
    ELSE est - 2

\* one limb of a quotient: the largest d with d * b <= cur, for cur < Base * b
\* and b with a top limb of at least Base \div 2, for which the estimate est
\* from the top limbs is at most 2 too large (Knuth, algorithm D)
QEst(cur, b, est) == QFix(cur, b, est, BMulSmall(b, est))

QDigit(cur, b) ==
    IF BCmp(cur, b) < 0 THEN 0
    ELSE QEst(cur, b,
              Min((IF Len(cur) > Len(b)
                   THEN cur[Len(cur)] * Base + cur[Len(cur) - 1]
                   ELSE cur[Len(cur)]) \div b[Len(b)],
                  Base - 1))

\* the quotient limbs q with the limb d before them, and the remainder of cur
DivPut(b, q, cur, d) == [q |-> <<d>> \o q, r |-> BSub(cur, BMulSmall(b, d))]

\* one step of the long division by b: cur is the remainder with the next
\* limb of the dividend appended
DivStep(b, q, cur) == DivPut(b, q, cur, QDigit(cur, b))

\* the long division of a by b from st, the quotient limbs found so far and
\* the remainder of the limbs of a they cover, until the quotient is complete
RECURSIVE DivSteps(_, _, _)
DivSteps(a, b, st) ==
    IF Len(st.q) = Len(a) - Len(b) + 1 THEN st
    ELSE DivSteps(a, b,
             DivStep(b, st.q,
                     BStrip(<<a[Len(a) - Len(b) + 1 - Len(st.q)]>> \o st.r)))

\* the quotient and whether the division is exact
DivEnd(st) == [q |-> BStrip(st.q), exact |-> st.r = <<>>]

\* a \div b from an = a * f and bn = b * f, bn with a top limb of at least
\* Base \div 2
DivNorm(a, an, bn) ==
    IF Len(an) < Len(bn) THEN [q |-> <<>>, exact |-> a = <<>>]
    ELSE DivEnd(DivSteps(an, bn,
                    [q |-> <<>>, r |-> SubSeq(an, Len(an) - Len(bn) + 2, Len(an))]))

\* a \div b for b > 0, and whether the division is exact
BDiv(a, b) ==
    DivNorm(a, BMulSmall(a, Base \div (b[Len(b)] + 1)),
               BMulSmall(b, Base \div (b[Len(b)] + 1)))

\* the integer square root of n < Base^2
ISqrt(n) == CHOOSE r \in 0..(Base - 1) : r * r <= n /\ (r + 1) * (r + 1) > n

\* the integer square root of a, by Newton's iteration from x above it:
\* the next iterate (x + a \div x) \div 2 is below x exactly when q = a \div x is
RECURSIVE BSqrtFrom(_, _)
RECURSIVE Newton(_, _, _)
Newton(a, x, q) ==
    IF BCmp(q, x) >= 0 THEN x ELSE BSqrtFrom(a, BHalf(BAdd(x, q)))

BSqrtFrom(a, x) == Newton(a, x, BDiv(a, x).q)

BSqrt(a) ==
    IF a = <<>> THEN a
    ELSE BSqrtFrom(a, [i \in 1..((Len(a) - 1) \div 2) |-> 0]
                          \o BNat(ISqrt(IF Len(a) % 2 = 0
                                        THEN a[Len(a)] * Base + a[Len(a) - 1]
                                        ELSE a[Len(a)]) + 1))

(***************************************************************************)
(* Floating-point values.  k is the kind: "fin" (s * m * 10^e, m of Digits *)
(* digits, or zero), "inf", "nan", "complex" (the complex number Python    *)
(* returns for a negative float raised to .5; its value is not modelled),  *)
(* and "raise" (the evaluation raised exc instead of producing a value).   *)
(* np tells a numpy.float64 (an element of an ndarray, and whatever is     *)
(* computed from one) from a Python float: both are instances of float,    *)
(* and they differ in what a division by zero and a negative radicand do.  *)
(***************************************************************************)
Num(k, s, m, e, np) == [k |-> k, s |-> s, m |-> m, e |-> e, np |-> np, exc |-> ""]

Zero(np) == Num("fin", 1, <<>>, 0, np)
Inf(s, np) == Num("inf", s, <<>>, 0, np)
NaN(np) == Num("nan", 1, <<>>, 0, np)
Complex(np) == Num("complex", 1, <<>>, 0, np)
Raise(exc) == [k |-> "raise", s |-> 1, m |-> <<>>, e |-> 0, np |-> FALSE, exc |-> exc]

IsZero(x) == x.k = "fin" /\ x.m = <<>>

\* s * M * 10^e for M # 0 of at most Digits digits: exact
Norm(s, M, e, np) ==
    Num("fin", s, BShl(M, Digits - BDigits(M)), e - (Digits - BDigits(M)), np)

\* s * q * 10^e for q of Digits digits, or of one more after a carry
RoundEnd(s, q, e, np) ==
    IF BDigits(q) > Digits THEN Num("fin", s, BPow10(Digits - 1), e + 1, np)
    ELSE Num("fin", s, q, e, np)

\* the Digits digits hi kept, up by one when the digits dropped are more
\* than half a unit (half > 0) or half of it (half = 0) and hi is odd
RoundHalfEven(s, hi, half, e, np) ==
    RoundEnd(s, IF half > 0 \/ (half = 0 /\ ~BIsEven(hi)) THEN BAdd(hi, <<1>>) ELSE hi,
             e, np)

\* s * M * 10^e for M of Digits + k digits, k > 0
RoundCut(s, M, e, np, k) ==
    RoundHalfEven(s, BShr(M, k), BCmp(BMulSmall(BLow(M, k), 2), BPow10(k)), e + k, np)

\* s * M * 10^e for M of d digits
RoundDigits(s, M, e, np, d) ==
    IF d = 0 THEN Zero(np)
    ELSE IF d <= Digits THEN Norm(s, M, e, np)
    ELSE RoundCut(s, M, e, np, d - Digits)

\* s * M * 10^e rounded to Digits digits, to nearest, ties to even
Round(s, M, e, np) == RoundDigits(s, M, e, np, BDigits(M))

\* the float literal n * 10^e of the source, n a small integer
Dec(n, e) ==
    Norm(IF n < 0 THEN -1 ELSE 1, BNat(IF n < 0 THEN -n ELSE n), e, FALSE)

\* hi + lo for M = hi.m * 10^(hi.e - lo.e), and c the order of M and lo.m
AddSigned(hi, lo, np, M, c) ==
    IF hi.s # lo.s /\ c = 0 THEN Zero(np)
    ELSE Round(IF hi.s = lo.s \/ c > 0 THEN hi.s ELSE lo.s,
               IF hi.s = lo.s THEN BAdd(M, lo.m)
               ELSE IF c > 0 THEN BSub(M, lo.m)
               ELSE BSub(lo.m, M),
               lo.e, np)

AddMant(hi, lo, np, M) == AddSigned(hi, lo, np, M, BCmp(M, lo.m))

\* hi + lo for hi.e >= lo.e, neither zero
AddAligned(hi, lo, np) ==
    IF hi.e - lo.e > Digits + 2 THEN [hi EXCEPT !.np = np]
    ELSE AddMant(hi, lo, np, BShl(hi.m, hi.e - lo.e))

AddFin(x, y, np) ==
    IF x.m = <<>> THEN [y EXCEPT !.np = np]
    ELSE IF y.m = <<>> THEN [x EXCEPT !.np = np]
    ELSE AddAligned(IF x.e >= y.e THEN x ELSE y, IF x.e >= y.e THEN y ELSE x, np)

\* s * (q + a digit that tells an inexact quotient) * 10^e
DivRound(s, qr, e, np) ==
    Round(s, IF qr.exact THEN qr.q ELSE BAdd(BShl(qr.q, 1), <<1>>),
          IF qr.exact THEN e ELSE e - 1, np)

DivFin(x, y, np) ==
    IF x.m = <<>> THEN Zero(np)
    ELSE DivRound(x.s * y.s, BDiv(BShl(x.m, Digits + 2), y.m),
                  x.e - y.e - Digits - 2, np)

\* (r + a digit that tells an inexact root) * 10^e
SqrtRound(r, exact, e, np) ==
    Round(1, IF exact THEN r ELSE BAdd(BShl(r, 1), <<1>>),
          IF exact THEN e ELSE e - 1, np)

SqrtExact(M, r, e, np) == SqrtRound(r, BCmp(BMul(r, r), M) = 0, e, np)

\* the square root of M * 10^(2 * e)
SqrtOf(M, e, np) == SqrtExact(M, BSqrt(M), e, np)

SqrtFin(x, np) ==
    IF x.m = <<>> THEN Zero(np)
    ELSE SqrtOf(BShl(x.m, Digits + 4 + (x.e % 2)),
                (x.e - (x.e % 2) - (Digits + 4)) \div 2, np)

\* x + y
FAdd(x, y) ==
    IF x.k = "fin" /\ y.k = "fin" THEN AddFin(x, y, x.np \/ y.np)
    ELSE IF x.k = "raise" THEN x
    ELSE IF y.k = "raise" THEN y
    ELSE IF x.k = "complex" \/ y.k = "complex" THEN Complex(x.np \/ y.np)
    ELSE IF x.k = "nan" \/ y.k = "nan" THEN NaN(x.np \/ y.np)
    ELSE IF x.k = "inf" /\ y.k = "inf"
    THEN (IF x.s = y.s THEN Inf(x.s, x.np \/ y.np) ELSE NaN(x.np \/ y.np))
    ELSE IF x.k = "inf" THEN Inf(x.s, x.np \/ y.np)
    ELSE Inf(y.s, x.np \/ y.np)

\* -x
FNeg(x) == IF x.k \in {"fin", "inf"} /\ ~IsZero(x) THEN [x EXCEPT !.s = -x.s] ELSE x

\* x - y
FSub(x, y) == FAdd(x, FNeg(y))

\* x * y
FMul(x, y) ==
    IF x.k = "fin" /\ y.k = "fin"
    THEN Round(x.s * y.s, BMul(x.m, y.m), x.e + y.e, x.np \/ y.np)
    ELSE IF x.k = "raise" THEN x
    ELSE IF y.k = "raise" THEN y
    ELSE IF x.k = "complex" \/ y.k = "complex" THEN Complex(x.np \/ y.np)
    ELSE IF x.k = "nan" \/ y.k = "nan" THEN NaN(x.np \/ y.np)
    ELSE IF IsZero(x) \/ IsZero(y) THEN NaN(x.np \/ y.np)
    ELSE Inf(x.s * y.s, x.np \/ y.np)

\* x / y: between Python floats a zero divisor raises ZeroDivisionError
\* (float division by zero); numpy returns inf or nan (and warns)
FDiv(x, y) ==
    IF x.k = "fin" /\ y.k = "fin" /\ y.m # <<>> THEN DivFin(x, y, x.np \/ y.np)
    ELSE IF x.k = "raise" THEN x
    ELSE IF y.k = "raise" THEN y
    ELSE IF IsZero(y) /\ ~(x.np \/ y.np) THEN Raise("ZeroDivisionError")
    ELSE IF x.k = "complex" \/ y.k = "complex" THEN Complex(x.np \/ y.np)
    ELSE IF x.k = "nan" \/ y.k = "nan" THEN NaN(x.np \/ y.np)
    ELSE IF IsZero(y)
    THEN (IF IsZero(x) THEN NaN(x.np \/ y.np) ELSE Inf(x.s, x.np \/ y.np))
    ELSE IF x.k = "inf"
    THEN (IF y.k = "inf" THEN NaN(x.np \/ y.np) ELSE Inf(x.s * y.s, x.np \/ y.np))
    ELSE Zero(x.np \/ y.np)

\* x ** 2
FPow2(x) == FMul(x, x)

\* x ** 3: the cube rounded once; an infinity keeps its sign
FPow3(x) ==
    IF x.k = "fin"
    THEN Round(x.s, BMul(BMul(x.m, x.m), x.m), 3 * x.e, x.np)
    ELSE x

\* x ** .5: of a negative number a Python float gives a complex number,
\* a numpy.float64 gives nan (and warns)
FSqrt(x) ==
    IF x.k = "fin"
    THEN (IF x.s < 0 /\ x.m # <<>>
          THEN (IF x.np THEN NaN(TRUE) ELSE Complex(FALSE))
          ELSE SqrtFin(x, x.np))
    ELSE IF x.k = "inf" THEN Inf(1, x.np)
    ELSE x

\* -1, 0, 1: the sign of a finite or infinite value
FSign(x) == IF IsZero(x) THEN 0 ELSE x.s

\* x <= y, for finite or infinite values
FLe(x, y) == FSign(FSub(x, y)) <= 0

(***************************************************************************)
(* The float literals of sellmeier.py.                                     *)
(***************************************************************************)
One == Dec(1, 0)
Two == Dec(2, 0)
MinusTwo == Dec(-2, 0)
Micro == Dec(1, 6)                  \* 1e6
B1 == Dec(103961212, -8)            \* 1.03961212
B2 == Dec(231792344, -9)            \* 0.231792344
B3 == Dec(101046945, -8)            \* 1.01046945
C1 == Dec(600069867, -11)           \* 0.00600069867
C2 == Dec(200179144, -10)           \* 0.0200179144
C3 == Dec(103560653, -6)            \* 103.560653
StepNg == Dec(1, -5)                \* 0.00001
Step2 == Dec(2, -5)                 \* 0.00002
c0 == Dec(299792458, 0)             \* 299792458.0
Pi == Num("fin", 1, <<9793, 5358, 5926, 3141>>, -15, FALSE)   \* np.pi
FsPerS2 == Dec(1, 30)               \* 1e30
MmPerM == Dec(1, 3)                 \* 1e3
DUnit == Dec(1, 6)                  \* 1e6

(***************************************************************************)
(* The scalar branches (isinstance(wl, float)) of the four methods.        *)
(***************************************************************************)
\* one term B/(1-C/x**2) of the Sellmeier sum
Term(B, C, x) == FDiv(B, FSub(One, FDiv(C, FPow2(x))))

\* the Sellmeier formula of x, the wavelength in micrometres
Sellmeier(x) ==
    FSqrt(FAdd(FAdd(FAdd(One, Term(B1, C1, x)), Term(B2, C2, x)), Term(B3, C3, x)))

\* BK7.__call__, float branch
ScalarIndex(wl) == Sellmeier(FMul(wl, Micro))

\* ScalarNg with the slope term added instead of subtracted
ScalarNgPlus(wl) ==
    FAdd(ScalarIndex(wl),
         FMul(wl, FDiv(FSub(ScalarIndex(FAdd(wl, FMul(StepNg, wl))),
                            ScalarIndex(FSub(wl, FMul(StepNg, wl)))),
                       FMul(Step2, wl))))

\* BK7.ng, float branch
ScalarNg(wl) ==
    FSub(ScalarIndex(wl),
         FMul(wl, FDiv(FSub(ScalarIndex(FAdd(wl, FMul(StepNg, wl))),
                            ScalarIndex(FSub(wl, FMul(StepNg, wl)))),
                       FMul(Step2, wl))))

\* the second difference (n(wl+h) - n(wl)) - (n(wl) - n(wl-h)), h = 0.00002*wl
SecondDiff(wl) ==
    FSub(FSub(ScalarIndex(FAdd(wl, FMul(Step2, wl))), ScalarIndex(wl)),
         FSub(ScalarIndex(wl), ScalarIndex(FSub(wl, FMul(Step2, wl)))))

\* tmp of BK7.GVD and BK7.D: wl**3/(2*np.pi*c0**2)*SecondDiff/(0.00002*wl)**2
RawGVD(wl) ==
    FDiv(FMul(FDiv(FPow3(wl), FMul(FMul(Two, Pi), FPow2(c0))), SecondDiff(wl)),
         FPow2(FMul(Step2, wl)))

\* BK7.GVD, float branch
ScalarGVD(wl) == FDiv(FMul(RawGVD(wl), FsPerS2), MmPerM)

\* ScalarD with the factor 2*np.pi*c0/wl**2 without its minus sign
ScalarDPlus(wl) ==
    FMul(FMul(RawGVD(wl), FDiv(FMul(FMul(Two, Pi), c0), FPow2(wl))), DUnit)

\* BK7.D, float branch
ScalarD(wl) ==
    FMul(FMul(RawGVD(wl), FDiv(FMul(FMul(MinusTwo, Pi), c0), FPow2(wl))), DUnit)

(***************************************************************************)
(* Python values: what a caller passes as wl and what a call returns.      *)
(* type is the runtime type; num the number of a float, numpy.float64 or   *)
(* int; ref the address of an ndarray in the heap; elems the items of a    *)
(* list or tuple and, for an ndarray argument, the contents the caller     *)
(* built it with.  "raise" stands for a call that raised exc.              *)
(***************************************************************************)
PyVal(type, num, ref, elems, exc) ==
    [type |-> type, num |-> num, ref |-> ref, elems |-> elems, exc |-> exc]

None == PyVal("NoneType", Zero(FALSE), 0, <<>>, "")
PyInt(n) == PyVal("int", Dec(n, 0), 0, <<>>, "")
PyList(elems) == PyVal("list", Zero(FALSE), 0, elems, "")
PyTuple(elems) == PyVal("tuple", Zero(FALSE), 0, elems, "")
PyArray(ref, elems) == PyVal("ndarray", Zero(FALSE), ref, elems, "")

\* the value a float expression evaluates to, or the exception it raised
PyFloat(x) ==
    IF x.k = "raise" THEN PyVal("raise", Zero(FALSE), 0, <<>>, x.exc)
    ELSE IF x.k = "complex" THEN PyVal("complex", x, 0, <<>>, "")
    ELSE PyVal(IF x.np THEN "float64" ELSE "float", x, 0, <<>>, "")

\* numpy.float64(x)
AsNp(x) == [x EXCEPT !.np = TRUE]

(***************************************************************************)
(* The inputs of the model.                                                *)
(***************************************************************************)
MaxLen == 2

W587 == Dec(5876, -10)              \* 0.5876e-6, the wavelength of __main__
W1000 == Dec(1, -6)                 \* 1.0e-6
W1500 == Dec(15, -7)                \* 1.5e-6
W400 == Dec(4, -7)                  \* 0.4e-6
W700 == Dec(7, -7)                  \* 0.7e-6
\* 7.746417668832478e-08: (wl*1e6)**2 is C1 to the last digit, 1-C1/x**2 is 0.0
WPole == Num("fin", 1, <<2478, 6883, 4176, 7746>>, -23, FALSE)

Wavelengths == {W587, W1000, W1500, W400, W700, WPole, Zero(FALSE)}
Visible == {W400, W587, W700}
ArrayElems == {AsNp(W587), AsNp(Zero(FALSE))}
Arrays == UNION {[1..n -> ArrayElems] : n \in 0..MaxLen}

\* the numbers of the model: those a call is made with, and the int 1
Points == Wavelengths \cup ArrayElems \cup {One}

Inputs ==
    {PyFloat(w) : w \in Wavelengths}
        \cup {PyFloat(w) : w \in ArrayElems}
        \cup {PyInt(1), PyList(<<W587>>), PyTuple(<<W587, W1000>>)}
        \cup {PyArray(0, a) : a \in Arrays}

Ops == {"index", "ng", "GVD", "D"}

\* the float branch of method op
ScalarResult(op, wl) ==
    CASE op = "index" -> ScalarIndex(wl)
      [] op = "ng"    -> ScalarNg(wl)
      [] op = "GVD"   -> ScalarGVD(wl)
      [] op = "D"     -> ScalarD(wl)

\* the methods of class BK7 as the module defines them: the float branch
\* of each, over the numbers of the model
Methods == [op \in Ops |-> [wl \in Points |-> ScalarResult(op, wl)]]

(***************************************************************************)
(* State.  frames[c] is the activation of the method caller c is in: pc    *)
(* ("idle": no call; "loop": in the for loop of the ndarray branch; "done":*)
(* returned or raised, the caller has not yet taken the result), the       *)
(* method op, its argument arg, the loop index i, the address out of the   *)
(* result array, and the result ret.  heap maps the addresses of the live  *)
(* ndarrays to their contents.  bk7 is the attribute dictionary of the BK7 *)
(* instance (attribute name -> address).  seen is one earlier call, with   *)
(* its argument and result by content, or None.  BK7 is the class: the     *)
(* methods an attribute lookup on the instance finds; no statement of the  *)
(* module assigns to the class after its definition.                       *)
(***************************************************************************)
VARIABLES frames, heap, bk7, seen, BK7

vars == <<frames, heap, bk7, seen, BK7>>

\* self.op(wl) for a float wl: the float branch of the method found on BK7
Eval(op, wl) == BK7[op][wl]

Callers == {1, 2}
SeqCallers == {1}

Frame(pc, op, arg, i, out, ret) ==
    [pc |-> pc, op |-> op, arg |-> arg, i |-> i, out |-> out, ret |-> ret]

Idle == Frame("idle", "", None, 0, 0, None)
Done(op, arg, out, ret) == Frame("done", op, arg, 0, out, ret)

EmptyHeap == [r \in {} |-> <<>>]
NoAttrs == [a \in {} |-> 0]

\* what a method step leaves: its frame, the heap, the instance
Out(f, h, slf) == [f |-> f, heap |-> h, self |-> slf]

\* isinstance(wl, np.ndarray)
IsNdarray(wl) == wl.type = "ndarray"

\* a test that takes an int for a float as well
IsFloatOrInt(wl) == wl.type \in {"float", "float64", "int"}

\* isinstance(wl, float): numpy.float64 is a subclass of float
IsFloat(wl) == wl.type \in {"float", "float64"}

\* the address of a newly allocated object: one no live object has
NewRef(h) ==
    CHOOSE r \in 1..(Cardinality(DOMAIN h) + 1) :
        r \notin DOMAIN h /\ \A q \in 1..(r - 1) : q \in DOMAIN h

Store(h, r, a) == [x \in DOMAIN h \cup {r} |-> IF x = r THEN a ELSE h[x]]

\* a result buffer kept on the instance (self.buf) and used again, as it
\* is, by the next call with an array of the same length
ZerosLikeCached(h, slf, wl) ==
    IF "buf" \in DOMAIN slf /\ Len(h[slf["buf"]]) = Len(h[wl.ref])
    THEN [out |-> slf["buf"], heap |-> h, self |-> slf]
    ELSE LET r == NewRef(h)
         IN  [out |-> r,
              heap |-> Store(h, r, [j \in 1..Len(h[wl.ref]) |-> AsNp(Zero(FALSE))]),
              self |-> [a \in {"buf"} |-> r]]

\* the result written into the argument itself (n = wl)
ZerosLikeAlias(h, slf, wl) == [out |-> wl.ref, heap |-> h, self |-> slf]

\* np.zeros_like(wl): a new array of zeros, as long as wl
ZerosLike(h, slf, wl) ==
    LET r == NewRef(h)
    IN  [out |-> r,
         heap |-> Store(h, r, [j \in 1..Len(h[wl.ref]) |-> AsNp(Zero(FALSE))]),
         self |-> slf]

\* self.op(value) for an item of the array: the call dispatches again
ElemCall(op, value) ==
    IF IsFloat(value) THEN PyFloat(Eval(op, value.num)) ELSE None

\* a[i] = v
SetItem(h, r, i, v) == [h EXCEPT ![r] = [@ EXCEPT ![i + 1] = v]]

\* the dispatch shared by the four methods: the ndarray branch allocates
\* the result and enters the loop, the float branch computes, and any
\* other argument falls off the end of the method (returns None)
Enter(op, wl, h, slf) ==
    IF IsNdarray(wl)
    THEN LET a == ZerosLike(h, slf, wl)
         IN  Out(Frame("loop", op, wl, 0, a.out, None), a.heap, a.self)
    ELSE IF IsFloat(wl)
    THEN Out(Done(op, wl, 0, PyFloat(Eval(op, wl.num))), h, slf)
    ELSE Out(Done(op, wl, 0, None), h, slf)

\* BK7.__call__
EnterIndex(wl, h, slf) == Enter("index", wl, h, slf)

\* BK7.ng
EnterNg(wl, h, slf) == Enter("ng", wl, h, slf)

\* BK7.GVD
EnterGVD(wl, h, slf) == Enter("GVD", wl, h, slf)

\* BK7.D
EnterD(wl, h, slf) == Enter("D", wl, h, slf)

\* one turn of the loop whose return follows the loop (BK7.__call__)
LoopThenReturn(f, h, slf) ==
    IF f.i < Len(h[f.arg.ref])
    THEN LET v == ElemCall(f.op, PyFloat(h[f.arg.ref][f.i + 1]))
         IN  IF v.type = "raise" THEN Out(Done(f.op, f.arg, f.out, v), h, slf)
             ELSE Out([f EXCEPT !.i = f.i + 1], SetItem(h, f.out, f.i, v.num), slf)
    ELSE Out(Done(f.op, f.arg, f.out, PyArray(f.out, <<>>)), h, slf)

\* one turn of the loop whose return is inside the loop body (BK7.ng,
\* BK7.GVD, BK7.D): the first item is stored and the array returned; with
\* no item the loop ends and the method falls off its end (returns None)
LoopReturnInside(f, h, slf) ==
    IF f.i < Len(h[f.arg.ref])
    THEN LET v == ElemCall(f.op, PyFloat(h[f.arg.ref][f.i + 1]))
         IN  IF v.type = "raise" THEN Out(Done(f.op, f.arg, f.out, v), h, slf)
             ELSE Out(Done(f.op, f.arg, f.out, PyArray(f.out, <<>>)),
                      SetItem(h, f.out, f.i, v.num), slf)
    ELSE Out(Done(f.op, f.arg, f.out, None), h, slf)

\* the loop of BK7.__call__ with its return inside the loop body
LoopIndexReturnInside(f, h, slf) == LoopReturnInside(f, h, slf)

LoopIndex(f, h, slf) == LoopThenReturn(f, h, slf)
LoopNg(f, h, slf) == LoopReturnInside(f, h, slf)
LoopGVD(f, h, slf) == LoopReturnInside(f, h, slf)
LoopD(f, h, slf) == LoopReturnInside(f, h, slf)

\* the caller's argument: an ndarray is an object of the heap
Pass(input, h) ==
    IF input.type = "ndarray"
    THEN [wl |-> [input EXCEPT !.ref = NewRef(h)],
          heap |-> Store(h, NewRef(h), input.elems)]
    ELSE [wl |-> input, heap |-> h]

\* the addresses frame f holds
Refs(f) ==
    (IF f.arg.type = "ndarray" THEN {f.arg.ref} ELSE {}) \cup ({f.out} \ {0})

\* the heap once caller c has dropped its argument and result: an array
\* lives as long as something refers to it
Collect(c) ==
    LET live == UNION {Refs(frames[d]) : d \in Callers \ {c}}
                    \cup {bk7[a] : a \in DOMAIN bk7}
    IN  [r \in DOMAIN heap \cap live |-> heap[r]]

\* a value by content: an ndarray by its items
Content(v, h) == IF v.type = "ndarray" THEN [v EXCEPT !.ref = 0, !.elems = h[v.ref]] ELSE v

Init ==
    /\ frames = [c \in Callers |-> Idle]
    /\ heap = EmptyHeap
    /\ bk7 = NoAttrs
    /\ seen = None
    /\ BK7 = Methods

Apply(c, o) ==
    /\ frames' = [frames EXCEPT ![c] = o.f]
    /\ heap' = o.heap
    /\ bk7' = o.self
    /\ UNCHANGED <<seen, BK7>>

\* caller c calls bk7(wl)
Index(c) ==
    /\ frames[c].pc = "idle"
    /\ \E input \in Inputs :
          LET p == Pass(input, heap) IN Apply(c, EnterIndex(p.wl, p.heap, bk7))

\* caller c calls bk7.ng(wl)
Ng(c) ==
    /\ frames[c].pc = "idle"
    /\ \E input \in Inputs :
          LET p == Pass(input, heap) IN Apply(c, EnterNg(p.wl, p.heap, bk7))

\* caller c calls bk7.GVD(wl)
GVD(c) ==
    /\ frames[c].pc = "idle"
    /\ \E input \in Inputs :
          LET p == Pass(input, heap) IN Apply(c, EnterGVD(p.wl, p.heap, bk7))

\* caller c calls bk7.D(wl)
D(c) ==
    /\ frames[c].pc = "idle"
    /\ \E input \in Inputs :
          LET p == Pass(input, heap) IN Apply(c, EnterD(p.wl, p.heap, bk7))

IndexLoop(c) ==
    /\ frames[c].pc = "loop" /\ frames[c].op = "index"
    /\ Apply(c, LoopIndex(frames[c], heap, bk7))

NgLoop(c) ==
    /\ frames[c].pc = "loop" /\ frames[c].op = "ng"
    /\ Apply(c, LoopNg(frames[c], heap, bk7))

GVDLoop(c) ==
    /\ frames[c].pc = "loop" /\ frames[c].op = "GVD"
    /\ Apply(c, LoopGVD(frames[c], heap, bk7))

DLoop(c) ==
    /\ frames[c].pc = "loop" /\ frames[c].op = "D"
    /\ Apply(c, LoopD(frames[c], heap, bk7))

\* the caller takes the result and drops it
Return(c) ==
    /\ frames[c].pc = "done"
    /\ frames' = [frames EXCEPT ![c] = Idle]
    /\ heap' = Collect(c)
    /\ UNCHANGED <<bk7, seen, BK7>>

\* the caller takes the result and keeps a copy of the call
Remember(c) ==
    /\ frames[c].pc = "done"
    /\ seen = None
    /\ seen' = PyTuple(<<frames[c].op, Content(frames[c].arg, heap),
                         Content(frames[c].ret, heap)>>)
    /\ frames' = [frames EXCEPT ![c] = Idle]
    /\ heap' = Collect(c)
    /\ UNCHANGED <<bk7, BK7>>

Step(c) ==
    \/ Index(c) \/ Ng(c) \/ GVD(c) \/ D(c)
    \/ IndexLoop(c) \/ NgLoop(c) \/ GVDLoop(c) \/ DLoop(c)
    \/ Return(c)

\* one caller, its calls one after the other
Next == \E c \in SeqCallers : Step(c) \/ Remember(c)

Spec == Init /\ [][Next]_vars

\* several callers, their calls interleaved loop turn by loop turn
ConcNext == \E c \in Callers : Step(c)

ConcSpec == Init /\ [][ConcNext]_vars

(***************************************************************************)
(* A call run alone: on an instance of its own, with no other caller, its  *)
(* steps one after the other.                                              *)
(***************************************************************************)
EnterOf(op, wl, h, slf) ==
    CASE op = "index" -> EnterIndex(wl, h, slf)
      [] op = "ng"    -> EnterNg(wl, h, slf)
      [] op = "GVD"   -> EnterGVD(wl, h, slf)
      [] op = "D"     -> EnterD(wl, h, slf)

LoopOf(f, h, slf) ==
    CASE f.op = "index" -> LoopIndex(f, h, slf)
      [] f.op = "ng"    -> LoopNg(f, h, slf)
      [] f.op = "GVD"   -> LoopGVD(f, h, slf)
      [] f.op = "D"     -> LoopD(f, h, slf)

RECURSIVE Finish(_)
Finish(o) == IF o.f.pc = "loop" THEN Finish(LoopOf(o.f, o.heap, o.self)) ELSE o

\* what op(input) returns, by content
Alone(op, input) ==
    LET p == Pass(input, EmptyHeap)
        o == Finish(EnterOf(op, p.wl, p.heap, NoAttrs))
    IN  Content(o.f.ret, o.heap)

\* the argument as the caller built it
AsBuilt(wl) == [wl EXCEPT !.ref = 0]

\* the second difference of the index at the numbers of the model
SecondDiffAt == [wl \in Points |-> SecondDiff(wl)]

\* whether the index at wl+h is at most the index at wl-h, h = 0.00001*wl
DecreasingAt ==
    [wl \in Points |->
        LET h  == FMul(StepNg, wl)
            lo == ScalarIndex(FSub(wl, h))
            hi == ScalarIndex(FAdd(wl, h))
        IN  lo.k = "fin" /\ hi.k = "fin" /\ FLe(hi, lo)]

(***************************************************************************)
(* The claims.                                                             *)
(***************************************************************************)

\* C1: index (BK7.__call__) of an array of n >= 0 wavelengths returns an
\* array of n items, item i being what index returns for wl[i] alone, in
\* the order of the input.
C1_IndexElementwise ==
    \A c \in SeqCallers :
        LET f == frames[c]
        IN  (f.pc = "done" /\ f.op = "index" /\ IsNdarray(f.arg)) =>
                /\ IsNdarray(f.ret)
                /\ Len(heap[f.ret.ref]) = Len(f.arg.elems)
                /\ \A i \in 1..Len(f.arg.elems) :
                       PyFloat(heap[f.ret.ref][i])
                           = Alone("index", PyFloat(f.arg.elems[i]))

\* index has returned for an array of two different items
C1_Witness ==
    \E c \in SeqCallers :
        /\ frames[c].pc = "done" /\ frames[c].op = "index"
        /\ frames[c].arg.elems = <<AsNp(Zero(FALSE)), AsNp(W587)>>
        /\ IsNdarray(frames[c].ret)
        /\ heap[frames[c].ret.ref]
               = <<Eval("index", AsNp(Zero(FALSE))), Eval("index", AsNp(W587))>>

\* C2: groupIndex (BK7.ng) of an array of n >= 1 wavelengths returns an array
\* whose item i, for every i and not only the first, is what groupIndex
\* returns for wl[i] alone.
C2_NgElementwise ==
    \A c \in SeqCallers :
        LET f == frames[c]
        IN  (/\ f.pc = "done" /\ f.op = "ng"
             /\ IsNdarray(f.arg) /\ Len(f.arg.elems) >= 1) =>
                /\ IsNdarray(f.ret)
                /\ \A i \in 1..Len(f.arg.elems) :
                       PyFloat(heap[f.ret.ref][i])
                           = Alone("ng", PyFloat(f.arg.elems[i]))

\* C3: groupVelocityDispersion (BK7.GVD) and dispersionParameter (BK7.D) of
\* an array of n >= 1 wavelengths each return an array whose item i, for
\* every i and not only the first, is what the same operation returns for
\* wl[i] alone.
C3_GVDAndDElementwise ==
    \A c \in SeqCallers :
        LET f == frames[c]
        IN  (/\ f.pc = "done" /\ f.op \in {"GVD", "D"}
             /\ IsNdarray(f.arg) /\ Len(f.arg.elems) >= 1) =>
                /\ IsNdarray(f.ret)
                /\ \A i \in 1..Len(f.arg.elems) :
                       PyFloat(heap[f.ret.ref][i])
                           = Alone(f.op, PyFloat(f.arg.elems[i]))

\* C4: each of the four operations, given an array of n >= 0 wavelengths
\* (the empty array too), returns an array of exactly n items, never nothing.
C4_SameLengthResult ==
    \A c \in SeqCallers :
        LET f == frames[c]
        IN  (f.pc = "done" /\ IsNdarray(f.arg)) =>
                /\ IsNdarray(f.ret)
                /\ Len(heap[f.ret.ref]) = Len(f.arg.elems)

\* C5: no operation raises for a scalar wavelength at a singularity (wl = 0.0,
\* or (wl*1e6)^2 equal to C1): the call returns a float.
C5_NoRaiseAtSingularity ==
    \A c \in SeqCallers :
        LET f == frames[c]
        IN  (/\ f.pc = "done" /\ IsFloat(f.arg)
             /\ (IsZero(f.arg.num) \/ f.arg.num = WPole)) =>
                IsFloat(f.ret)

\* C6: for a scalar wavelength wl > 0 whose second difference of the index
\* is not zero, dispersionParameter(wl) and groupVelocityDispersion(wl) have
\* opposite signs.
C6_OppositeSigns ==
    \A c \in SeqCallers :
        LET f == frames[c]
        IN  (/\ f.pc = "done" /\ f.op = "D" /\ IsFloat(f.arg)
             /\ seen # None /\ seen.elems[1] = "GVD" /\ seen.elems[2] = f.arg
             /\ FSign(f.arg.num) > 0
             /\ SecondDiffAt[f.arg.num].k = "fin"
             /\ ~IsZero(SecondDiffAt[f.arg.num])) =>
                /\ IsFloat(f.ret) /\ f.ret.num.k = "fin"
                /\ IsFloat(seen.elems[3]) /\ seen.elems[3].num.k = "fin"
                /\ FSign(f.ret.num) * FSign(seen.elems[3].num) = -1

\* D has returned for 1.5e-6, where GVD was negative and D is positive
C6_Witness ==
    \E c \in SeqCallers :
        /\ frames[c].pc = "done" /\ frames[c].op = "D"
        /\ frames[c].arg = PyFloat(W1500)
        /\ seen # None /\ seen.elems[1] = "GVD" /\ seen.elems[2] = PyFloat(W1500)
        /\ ~IsZero(SecondDiffAt[W1500])
        /\ FSign(seen.elems[3].num) = -1
        /\ FSign(frames[c].ret.num) = 1

\* C7: an operation called again with the same input, whatever calls were
\* made on the BK7 object before and in between, returns the same result.
C7_SameInputSameResult ==
    \A c \in SeqCallers :
        LET f == frames[c]
        IN  (/\ f.pc = "done" /\ seen # None
             /\ seen.elems[1] = f.op
             /\ seen.elems[2] = Content(f.arg, heap)) =>
                seen.elems[3] = Content(f.ret, heap)

\* ng has returned a second time for the same array of two items
C7_Witness ==
    \E c \in SeqCallers :
        /\ frames[c].pc = "done" /\ frames[c].op = "ng"
        /\ IsNdarray(frames[c].arg) /\ Len(frames[c].arg.elems) = 2
        /\ seen # None /\ seen.elems[1] = "ng"
        /\ seen.elems[2] = Content(frames[c].arg, heap)
        /\ IsNdarray(seen.elems[3])

\* C8: for a scalar wavelength wl > 0 around which the index is decreasing
\* (its value at wl+h at most its value at wl-h, h = 1e-5*wl), groupIndex(wl)
\* is at least index(wl); the index is decreasing around 587.6 nm.
C8_GroupIndexAboveIndex ==
    /\ DecreasingAt[W587]
    /\ \A c \in SeqCallers :
           LET f == frames[c]
           IN  (/\ f.pc = "done" /\ f.op = "ng" /\ IsFloat(f.arg)
                /\ FSign(f.arg.num) > 0 /\ DecreasingAt[f.arg.num]) =>
                   /\ IsFloat(f.ret) /\ f.ret.num.k = "fin"
                   /\ FLe(Alone("index", f.arg).num, f.ret.num)

\* ng has returned for 587.6 nm, a visible wavelength, more than the index
C8_Witness ==
    \E c \in SeqCallers :
        /\ frames[c].pc = "done" /\ frames[c].op = "ng"
        /\ frames[c].arg = PyFloat(W587) /\ W587 \in Visible
        /\ DecreasingAt[W587]
        /\ ~FLe(frames[c].ret.num, Eval("index", W587))

\* C9: with several callers, their steps interleaved in any way, each call
\* returns what the same call returns alone; no call writes to the BK7 object
\* or to its argument, and the array a call fills is its own, referred to by
\* no other call.
C9_ConcurrentCallsIndependent ==
    /\ bk7 = NoAttrs
    /\ \A c \in Callers :
           LET f == frames[c]
           IN  /\ (f.pc # "idle" /\ IsNdarray(f.arg)) =>
                      heap[f.arg.ref] = f.arg.elems
               /\ (f.out # 0) =>
                      /\ f.out # f.arg.ref
                      /\ \A d \in Callers \ {c} : f.out \notin Refs(frames[d])
               /\ (f.pc = "done") =>
                      Content(f.ret, heap) = Alone(f.op, AsBuilt(f.arg))

\* one caller has its array result while the other is half way through its loop
C9_Witness ==
    /\ frames[1].pc = "done" /\ frames[1].op = "index"
    /\ IsNdarray(frames[1].ret) /\ Len(heap[frames[1].ret.ref]) = 2
    /\ frames[2].pc = "loop" /\ frames[2].op = "index" /\ frames[2].i = 1
    /\ Len(frames[2].arg.elems) = 2

\* C10: each operation has exactly three outcomes by the type of its
\* argument: an ndarray takes the loop over its items, a float the scalar
\* formula, and anything else (the int 1, a list, a tuple) returns None,
\* nothing computed and nothing raised.
C10_Dispatch ==
    \A c \in SeqCallers :
        LET f == frames[c]
        IN  /\ (f.pc = "loop") => (IsNdarray(f.arg) /\ f.out \in DOMAIN heap)
            /\ (f.pc = "done") =>
                   CASE f.arg.type = "ndarray" ->
                            /\ f.out \in DOMAIN heap
                            /\ f.ret \in {PyArray(f.out, <<>>), None}
                     [] f.arg.type \in {"float", "float64"} ->
                            /\ f.out = 0
                            /\ f.ret = PyFloat(Eval(f.op, f.arg.num))
                     [] OTHER ->
                            /\ f.out = 0
                            /\ f.ret = None

\* GVD has returned None for the int 1
C10_Witness ==
    \E c \in SeqCallers :
        /\ frames[c].pc = "done" /\ frames[c].op = "GVD"
        /\ frames[c].arg = PyInt(1)
        /\ frames[c].ret = None
====
